---- MODULE Spec2Model ----
(***************************************************************************)
(* Layout reconstruction pipeline of StreamlitOCREngine                    *)
(* (src/streamlit_ocr_engine.py): OCR token extraction over a fixed list   *)
(* of configurations, row clustering, spacing grouping, column-break       *)
(* detection and the spreadsheet layout.                                   *)
(*                                                                         *)
(* Texts are sequences of one-character strings.  A word (a Python dict of *)
(* the engine) is a record.  A TextRun carries, besides the keys the code  *)
(* writes, the history field words: the word_group it was merged from.     *)
(* Scores and mean confidences are Python floats; they are kept here as    *)
(* exact fractions [num, den] and compared by cross-multiplication.        *)
(***************************************************************************)
EXTENDS Integers, Sequences, FiniteSets, TLC

VARIABLES
    pc,                      \* position in process_image / process_files
    confidence_threshold,    \* self.confidence_threshold
    row_height_threshold,    \* self.row_height_threshold
    word_spacing_threshold,  \* self.word_spacing_threshold
    column_break_threshold,  \* self.column_break_threshold
    config_idx,              \* index of the next entry of configs to try
    tried,                   \* history: per configuration tried, raised / its words
    conf_seen,               \* history: the sides of confidence_threshold the conf
                             \* of the OCR entries read so far fell on
    best_words,              \* local best_words of the extraction
    best_score,              \* local best_score of the extraction
    words,                   \* the list returned by the extraction
    grouped_rows,            \* result of group_words_by_spacing
    row_tops,                \* history: current_top of every row appended
    enhanced_rows,           \* result of detect_column_breaks
    column_positions,        \* history: calculate_smart_columns of every row written
    sheet,                   \* worksheet cells: <<row, column>> -> text
    column_widths,           \* worksheet.column_dimensions[column].width
    cell_styles,             \* the branch of format_cell_smart taken for every cell
    temp_files,              \* files of the system temporary directory that exist
    excel_path,              \* what create_smart_excel_layout returned
    message,                 \* the status message process_image returns
    cleanings,               \* history: a text and its successive cleanings
    uploaded_files,          \* process_files: the items of the batch
    debug_mode,              \* process_files: the debug_mode argument
    file_idx,                \* process_files: index of the item being processed
    excel_files,             \* process_files: artifacts of the item still to move
    processed_files,         \* process_files: the artifacts moved into temp_dir
    temp_dir,                \* process_files: files of its TemporaryDirectory
    statuses                 \* process_files: the st.success / st.error item reports

vars == <<pc, confidence_threshold, row_height_threshold, word_spacing_threshold,
          column_break_threshold, config_idx, tried, best_words, best_score,
          words, grouped_rows, row_tops, enhanced_rows, column_positions, sheet,
          column_widths, conf_seen, cell_styles, temp_files,
          excel_path, message, cleanings, uploaded_files, debug_mode, file_idx,
          excel_files, processed_files, temp_dir, statuses>>

(***************************************************************************)
(* Bounds of the model and constants of the program.                       *)
(***************************************************************************)
MaxTokens == 2          \* OCR entries per configuration (extraction)
MaxWords == 3           \* words handed to the grouping (layout)

NumConfigs == 4         \* len(configs)
DefaultConfidenceThreshold == 10
DefaultRowHeightThreshold == 25
DefaultWordSpacingThreshold == 30
DefaultColumnBreakThreshold == 80
WidthPadding == 3
MinColumnWidth == 15
MaxColumnWidth == 80

(***************************************************************************)
(* Generic helpers.                                                        *)
(***************************************************************************)
Min2(a, b) == IF a <= b THEN a ELSE b
Max2(a, b) == IF a >= b THEN a ELSE b
Abs(x) == IF x < 0 THEN -x ELSE x

RECURSIVE SumSeq(_)
SumSeq(s) == IF s = <<>> THEN 0 ELSE Head(s) + SumSeq(Tail(s))

RECURSIVE MinSeq(_)
MinSeq(s) == IF Len(s) = 1 THEN s[1] ELSE Min2(Head(s), MinSeq(Tail(s)))

RECURSIVE MaxSeq(_)
MaxSeq(s) == IF Len(s) = 1 THEN s[1] ELSE Max2(Head(s), MaxSeq(Tail(s)))

RECURSIVE Flatten(_)
Flatten(ss) == IF ss = <<>> THEN <<>> ELSE Head(ss) \o Flatten(Tail(ss))

SeqsUpTo(S, n) == UNION {[1..k -> S] : k \in 0..n}

(***************************************************************************)
(* Texts: str.strip, re.sub(r'\s+', ' ', .), str.replace, ' '.join.        *)
(***************************************************************************)
Whitespace == {" ", "\t"}

RECURSIVE LStrip(_)
LStrip(t) == IF t # <<>> /\ Head(t) \in Whitespace THEN LStrip(Tail(t)) ELSE t

RECURSIVE RStrip(_)
RStrip(t) ==
    IF t # <<>> /\ t[Len(t)] \in Whitespace THEN RStrip(SubSeq(t, 1, Len(t) - 1)) ELSE t

Strip(t) == RStrip(LStrip(t))

\* t.replace('  ', ' ') for re.sub(r'\s+', ' ', t): one pass over the pairs of
\* spaces
RECURSIVE CollapseWhitespace_PairsOnce(_)
CollapseWhitespace_PairsOnce(t) ==
    IF t = <<>> THEN <<>>
    ELSE IF Len(t) >= 2 /\ t[1] = " " /\ t[2] = " "
         THEN <<" ">> \o CollapseWhitespace_PairsOnce(SubSeq(t, 3, Len(t)))
         ELSE <<Head(t)>> \o CollapseWhitespace_PairsOnce(Tail(t))

\* re.sub(r'\s+', ' ', t): every maximal run of whitespace becomes one space
RECURSIVE CollapseWhitespace(_)
CollapseWhitespace(t) ==
    IF t = <<>> THEN <<>>
    ELSE IF Head(t) \in Whitespace
         THEN <<" ">> \o CollapseWhitespace(LStrip(t))
         ELSE <<Head(t)>> \o CollapseWhitespace(Tail(t))

\* t.replace('|', 'I')
ReplaceBar(t) == [i \in 1..Len(t) |-> IF t[i] = "|" THEN "I" ELSE t[i]]

gentle_text_cleaning(t) ==
    IF t = <<>> THEN <<>>
    ELSE ReplaceBar(CollapseWhitespace(Strip(t)))

\* ' '.join(ts)
RECURSIVE JoinSpace(_)
JoinSpace(ts) ==
    IF ts = <<>> THEN <<>>
    ELSE IF Len(ts) = 1 THEN ts[1]
    ELSE ts[1] \o <<" ">> \o JoinSpace(Tail(ts))

(***************************************************************************)
(* Extraction (extract_text_with_word_level_data).                         *)
(* An OCR entry is [text, conf, left, top, width, height]: one index of    *)
(* the columns of pytesseract's DICT output.  conf is an integer there, so *)
(* the comparison with the string '-1' never matches and int(conf) is conf *)
(* itself; -1 is below every threshold the program sets, like 0.           *)
(***************************************************************************)
Fraction(n, d) == [num |-> n, den |-> d]

\* a > b for fractions with positive denominators
FractionGreater(a, b) == a.num * b.den > b.num * a.den

\* line 100, its last test: the side of the threshold the entry's conf is on
ConfSide(e, threshold) == IF e.conf >= threshold THEN "reached" ELSE "below"

\* line 100 without its last test: the confidence is not looked at
Survives_AnyConfidence(e, threshold) ==
    LET text == Strip(e.text)
    IN  /\ text # <<>>
        /\ Len(Strip(text)) >= 1

\* line 100 without its first two tests: the text is not looked at
Survives_AnyText(e, threshold) == e.conf >= threshold

\* lines 97-100: the test deciding whether entry e becomes a word
Survives(e, threshold) ==
    LET text == Strip(e.text)
        confidence == e.conf
    IN  /\ text # <<>>
        /\ Len(Strip(text)) >= 1
        /\ confidence >= threshold

\* lines 101-109: the word appended for an OCR entry
MakeWord(e) ==
    [text       |-> gentle_text_cleaning(Strip(e.text)),
     left       |-> e.left,
     top        |-> e.top,
     width      |-> e.width,
     height     |-> e.height,
     confidence |-> e.conf,
     right      |-> e.left + e.width]

\* lines 95-109: the words of one configuration's OCR data, from entry i on
RECURSIVE WordsFrom(_, _, _)
WordsFrom(data, i, threshold) ==
    IF i > Len(data) THEN <<>>
    ELSE (IF Survives(data[i], threshold) THEN <<MakeWord(data[i])>> ELSE <<>>)
         \o WordsFrom(data, i + 1, threshold)

\* score = len*0.4 + avg_confidence*0.3 + total_text_length*0.3, as the exact
\* fraction (4 n^2 + 3 total_confidence + 3 n total_text_length) / (10 n)
calculate_extraction_score(ws) ==
    IF ws = <<>> THEN Fraction(0, 1)
    ELSE LET n == Len(ws)
             total_confidence == SumSeq([i \in 1..n |-> ws[i].confidence])
             total_text_length == SumSeq([i \in 1..n |-> Len(ws[i].text)])
         IN  Fraction(4 * n * n + 3 * total_confidence + 3 * n * total_text_length,
                      10 * n)

\* line 114 with >= for >: a later configuration of equal score would win
IsBetterScore_OrEqual(score, best) == ~FractionGreater(best, score)

\* line 114: score > best_score
IsBetterScore(score, best) == FractionGreater(score, best)

(***************************************************************************)
(* Row clustering and spacing grouping (group_words_by_spacing,            *)
(* process_row_spacing, merge_word_group).                                 *)
(***************************************************************************)
\* key (top, left) of line 147
TopLeftLeq(a, b) == a.top < b.top \/ (a.top = b.top /\ a.left <= b.left)

\* list.sort is stable: w goes after every element whose key is not greater
RECURSIVE InsertByTopLeft(_, _)
InsertByTopLeft(s, w) ==
    IF s = <<>> THEN <<w>>
    ELSE IF TopLeftLeq(s[Len(s)], w) THEN Append(s, w)
    ELSE Append(InsertByTopLeft(SubSeq(s, 1, Len(s) - 1), w), s[Len(s)])

RECURSIVE SortByTopLeft(_)
SortByTopLeft(s) ==
    IF s = <<>> THEN <<>>
    ELSE InsertByTopLeft(SortByTopLeft(SubSeq(s, 1, Len(s) - 1)), s[Len(s)])

RECURSIVE InsertByLeft(_, _)
InsertByLeft(s, w) ==
    IF s = <<>> THEN <<w>>
    ELSE IF s[Len(s)].left <= w.left THEN Append(s, w)
    ELSE Append(InsertByLeft(SubSeq(s, 1, Len(s) - 1), w), s[Len(s)])

RECURSIVE SortByLeft(_)
SortByLeft(s) ==
    IF s = <<>> THEN <<>>
    ELSE InsertByLeft(SortByLeft(SubSeq(s, 1, Len(s) - 1)), s[Len(s)])

\* line 220 without the filter and line 222 without the test: blank groups kept
merge_word_group_KeepBlank(word_group) ==
    IF word_group = <<>> THEN <<>>
    ELSE LET n == Len(word_group)
             left == MinSeq([i \in 1..n |-> word_group[i].left])
             top == MinSeq([i \in 1..n |-> word_group[i].top])
             right == MaxSeq([i \in 1..n |-> word_group[i].right])
             bottom == MaxSeq([i \in 1..n |-> word_group[i].top + word_group[i].height])
         IN  <<[text |-> JoinSpace([i \in 1..n |-> word_group[i].text]),
                left |-> left, top |-> top, width |-> right - left,
                height |-> bottom - top,
                confidence |->
                    Fraction(SumSeq([i \in 1..n |-> word_group[i].confidence]), n),
                column_break |-> FALSE,
                words |-> word_group]>>

\* merge_word_group: <<>> is None, <<run>> the merged element.  column_break
\* FALSE is the key being absent (group.get('column_break', False)).
merge_word_group(word_group) ==
    IF word_group = <<>> THEN <<>>
    ELSE LET n == Len(word_group)
             nonblank == SelectSeq(word_group, LAMBDA w : Strip(w.text) # <<>>)
             combined_text == JoinSpace([i \in 1..Len(nonblank) |-> nonblank[i].text])
             left == MinSeq([i \in 1..n |-> word_group[i].left])
             top == MinSeq([i \in 1..n |-> word_group[i].top])
             right == MaxSeq([i \in 1..n |-> word_group[i].right])
             bottom == MaxSeq([i \in 1..n |-> word_group[i].top + word_group[i].height])
         IN  IF Strip(combined_text) = <<>> THEN <<>>
             ELSE <<[text |-> combined_text,
                     left |-> left, top |-> top, width |-> right - left,
                     height |-> bottom - top,
                     confidence |->
                         Fraction(SumSeq([i \in 1..n |-> word_group[i].confidence]), n),
                     column_break |-> FALSE,
                     words |-> word_group]>>

\* line 195 with < for <=
KeepTogether_Strict(gap, threshold) == gap < threshold

\* line 195: gap <= self.word_spacing_threshold
KeepTogether(gap, threshold) == gap <= threshold

\* lines 187-210: the walk over the sorted row from index i with the open group
RECURSIVE SpacingWalk(_, _, _, _)
SpacingWalk(row_words, i, current_group, threshold) ==
    IF i > Len(row_words) THEN merge_word_group(current_group)
    ELSE LET current_word == row_words[i]
             previous_word == row_words[i - 1]
             gap == current_word.left - previous_word.right
         IN  IF KeepTogether(gap, threshold)
             THEN SpacingWalk(row_words, i + 1, Append(current_group, current_word),
                              threshold)
             ELSE merge_word_group(current_group)
                  \o SpacingWalk(row_words, i + 1, <<current_word>>, threshold)

\* lines 207-210 left out: the group open at the end of the row is not merged
process_row_spacing_NoFlush(row_words, threshold) ==
    IF row_words = <<>> THEN <<>>
    ELSE LET sorted == SortByLeft(row_words)
             groups == SpacingWalk(sorted, 2, <<sorted[1]>>, threshold)
         IN  SubSeq(groups, 1, Len(groups) - 1)

\* line 181 left out: the row is walked in the order it arrives
process_row_spacing_Unsorted(row_words, threshold) ==
    IF row_words = <<>> THEN <<>>
    ELSE SpacingWalk(row_words, 2, <<row_words[1]>>, threshold)

process_row_spacing(row_words, threshold) ==
    IF row_words = <<>> THEN <<>>
    ELSE LET sorted == SortByLeft(row_words)
         IN  SpacingWalk(sorted, 2, <<sorted[1]>>, threshold)

\* line 155: current_top is <<>> for None and <<t>> for the reference top t
JoinsRow(word, current_top, threshold) ==
    current_top = <<>> \/ Abs(word.top - current_top[1]) <= threshold

\* line 157 taking the top of every word that joins: a running reference
NextCurrentTop_Running(current_top, word) == <<word.top>>

\* line 157: current_top = word['top'] if current_top is None else current_top
NextCurrentTop(current_top, word) ==
    IF current_top = <<>> THEN <<word.top>> ELSE current_top

\* lines 150-171 before the rows are processed: the clusters
\* [top |-> current_top, row |-> current_row] in the order they are closed
RECURSIVE ClusterWalk(_, _, _, _, _)
ClusterWalk(ws, i, current_row, current_top, threshold) ==
    LET closed == IF current_row # <<>>
                  THEN <<[top |-> current_top[1], row |-> current_row]>>
                  ELSE <<>>
    IN  IF i > Len(ws) THEN closed
        ELSE LET word == ws[i]
             IN  IF JoinsRow(word, current_top, threshold)
                 THEN ClusterWalk(ws, i + 1, Append(current_row, word),
                                  NextCurrentTop(current_top, word), threshold)
                 ELSE closed \o ClusterWalk(ws, i + 1, <<word>>, <<word.top>>, threshold)

\* line 147 left out: the words are clustered in the order they arrive
SortedWords_Unsorted(ws) == ws

\* line 147: words.sort(key=lambda x: (x['top'], x['left']))
SortedWords(ws) == SortByTopLeft(ws)

\* the clusters whose processed row is not empty, each with its processed row
ProcessedClusters(ws, row_height, word_spacing) ==
    LET clusters == ClusterWalk(SortedWords(ws), 1, <<>>, <<>>, row_height)
        processed == [i \in 1..Len(clusters) |->
                        [top |-> clusters[i].top,
                         row |-> process_row_spacing(clusters[i].row, word_spacing)]]
    IN  SelectSeq(processed, LAMBDA c : c.row # <<>>)

group_words_by_spacing(ws, row_height, word_spacing) ==
    IF ws = <<>> THEN <<>>
    ELSE LET kept == ProcessedClusters(ws, row_height, word_spacing)
         IN  [i \in 1..Len(kept) |-> kept[i].row]

\* history: the reference top of every row group_words_by_spacing returns
RowTops(ws, row_height, word_spacing) ==
    IF ws = <<>> THEN <<>>
    ELSE LET kept == ProcessedClusters(ws, row_height, word_spacing)
         IN  [i \in 1..Len(kept) |-> kept[i].top]


(***************************************************************************)
(* Column breaks and the spreadsheet layout (detect_column_breaks,         *)
(* calculate_smart_columns, create_smart_excel_layout,                     *)
(* adjust_column_widths_smart).                                            *)
(***************************************************************************)
\* line 267 with > for >=
IsColumnBreak_Strict(gap, threshold) == gap > threshold

\* line 267: gap >= self.column_break_threshold
IsColumnBreak(gap, threshold) == gap >= threshold

\* lines 251-273 for one row
MarkRow(row_groups, threshold) ==
    IF Len(row_groups) <= 1 THEN row_groups
    ELSE [i \in 1..Len(row_groups) |->
            IF i = 1 THEN row_groups[i]
            ELSE LET group == row_groups[i]
                     prev_group == row_groups[i - 1]
                     gap == group.left - (prev_group.left + prev_group.width)
                 IN  IF IsColumnBreak(gap, threshold)
                     THEN [group EXCEPT !.column_break = TRUE]
                     ELSE group]

detect_column_breaks(rows, threshold) ==
    IF rows = <<>> THEN <<>>
    ELSE [r \in 1..Len(rows) |-> MarkRow(rows[r], threshold)]

\* lines 322-335: position i is 1 plus the number of marked groups in 2..i
RECURSIVE calculate_smart_columns(_)
calculate_smart_columns(row_groups) ==
    IF row_groups = <<>> THEN <<>>
    ELSE IF Len(row_groups) = 1 THEN <<1>>
    ELSE LET n == Len(row_groups)
             before == calculate_smart_columns(SubSeq(row_groups, 1, n - 1))
             current_column == before[n - 1]
         IN  Append(before,
                    IF row_groups[n].column_break THEN current_column + 1
                    ELSE current_column)

\* lines 297-301: the cells after writing groups i.. of one row; a later
\* write to a cell replaces the value an earlier one left there
RECURSIVE WriteRow(_, _, _, _, _)
WriteRow(cells, row_groups, positions, i, excel_row) ==
    IF i > Len(row_groups) THEN cells
    ELSE LET group == row_groups[i]
             written == IF Strip(group.text) # <<>>
                        THEN (<<excel_row, positions[i]>> :> group.text) @@ cells
                        ELSE cells
         IN  WriteRow(written, row_groups, positions, i + 1, excel_row)

\* lines 287-303: the cells after writing rows r.. (excel_row = r)
RECURSIVE WriteRows(_, _, _)
WriteRows(cells, rows, r) ==
    IF r > Len(rows) THEN cells
    ELSE IF rows[r] = <<>> THEN WriteRows(cells, rows, r + 1)
    ELSE WriteRows(WriteRow(cells, rows[r], calculate_smart_columns(rows[r]), 1, r),
                   rows, r + 1)

\* line 295 for every row: the column positions the rows are written with
ColumnPositions(rows) == [r \in 1..Len(rows) |-> calculate_smart_columns(rows[r])]

\* the empty worksheet of Workbook().active
EmptySheet == [c \in {} |-> <<>>]

\* line 381 with the limits exchanged
AdjustedWidth_Swapped(width) ==
    Max2(Min2(width + WidthPadding, MinColumnWidth), MaxColumnWidth)

\* line 381: min(max(width + 3, 15), 80)
AdjustedWidth(width) ==
    Min2(Max2(width + WidthPadding, MinColumnWidth), MaxColumnWidth)

\* lines 366-377: the longest content of every column holding a value
ContentWidths(cells) ==
    LET filled == {c \in DOMAIN cells : cells[c] # <<>>}
        columns == {c[2] : c \in filled}
    IN  [col \in columns |->
            CHOOSE n \in {Len(cells[c]) : c \in {d \in filled : d[2] = col}} :
                \A c \in {d \in filled : d[2] = col} : Len(cells[c]) <= n]

adjust_column_widths_smart(cells) ==
    LET widths == ContentWidths(cells)
    IN  [col \in DOMAIN widths |-> AdjustedWidth(widths[col])]


(***************************************************************************)
(* Cell formatting (format_cell_smart).  The result is the name of the     *)
(* branch taken; the glyphs outside ASCII are written by their code point. *)
(***************************************************************************)
UpperLetters ==
    {"A", "B", "C", "D", "E", "F", "G", "H", "I", "J", "K", "L", "M",
     "N", "O", "P", "Q", "R", "S", "T", "U", "V", "W", "X", "Y", "Z"}
LowerLetters ==
    {"a", "b", "c", "d", "e", "f", "g", "h", "i", "j", "k", "l", "m",
     "n", "o", "p", "q", "r", "s", "t", "u", "v", "w", "x", "y", "z"}
Digits == {"0", "1", "2", "3", "4", "5", "6", "7", "8", "9"}

\* line 346, the tuple of startswith
BulletGlyphs == {"U+2022", "-", "*", "U+25CB", "U+25AA"}

\* str.isupper: some cased character, and no lower-case one
isupper(text) ==
    /\ \E i \in 1..Len(text) : text[i] \in UpperLetters
    /\ \A i \in 1..Len(text) : text[i] \notin LowerLetters

\* line 346: text.startswith(glyphs)
StartsWithBullet(text) == text # <<>> /\ text[1] \in BulletGlyphs

\* line 350: re.match(r'^\d+\.', text)
MatchesNumbered(text) ==
    \E k \in 1..(Len(text) - 1) :
        /\ \A i \in 1..k : text[i] \in Digits
        /\ text[k + 1] = "."

\* lines 342-362 with the test of line 353 moved in front of line 346
format_cell_smart_LongFirst(text) ==
    IF isupper(text) /\ Len(text) > 3 THEN "Header"
    ELSE IF Len(text) > 50 THEN "LongBody"
    ELSE IF StartsWithBullet(text) THEN "Bullet"
    ELSE IF MatchesNumbered(text) THEN "Numbered"
    ELSE "Body"

\* lines 342-362: the if / elif chain over element['text']
format_cell_smart(text) ==
    IF isupper(text) /\ Len(text) > 3 THEN "Header"
    ELSE IF StartsWithBullet(text) THEN "Bullet"
    ELSE IF MatchesNumbered(text) THEN "Numbered"
    ELSE IF Len(text) > 50 THEN "LongBody"
    ELSE "Body"

\* lines 297-301: every cell written is formatted from the text written to
\* it, by the call that wrote it last
CellStyles(cells) == [c \in DOMAIN cells |-> format_cell_smart(cells[c])]

(***************************************************************************)
(* Inputs.                                                                 *)
(***************************************************************************)
ShortText == <<"a", "b">>
LongText == [i \in 1..40 |-> "A"]
BlankText == <<" ">>

\* what the OCR capability may report for one entry
OcrEntries ==
    { [text |-> ShortText, conf |-> 95, left |-> 0, top |-> 0, width |-> 20, height |-> 10],
      [text |-> <<" ", "|">>, conf |-> 10, left |-> 100, top |-> 0, width |-> 20,
       height |-> 10],
      [text |-> ShortText, conf |-> 9, left |-> 0, top |-> 0, width |-> 20, height |-> 10],
      [text |-> BlankText, conf |-> 95, left |-> 50, top |-> 0, width |-> 20,
       height |-> 10] }

OcrOutputs == SeqsUpTo(OcrEntries, MaxTokens)

\* the words of a list as the extraction builds them: right = left + width
AsWords(shapes) ==
    [i \in 1..Len(shapes) |->
        [text |-> shapes[i].text, left |-> shapes[i].left,
         top |-> shapes[i].top, width |-> shapes[i].width, height |-> 10,
         confidence |-> shapes[i].confidence,
         right |-> shapes[i].left + shapes[i].width]]

LayoutLefts == {0, 50, 150}
LayoutTops == {0, 25, 26}

\* words the extraction can return: cleaned, non-blank text
LayoutShapes ==
    { [text |-> x.text, width |-> x.width, confidence |-> x.confidence,
       left |-> l, top |-> t] :
        x \in { [text |-> ShortText, width |-> 20, confidence |-> 95],
                [text |-> LongText, width |-> 60, confidence |-> 60] },
        l \in LayoutLefts, t \in LayoutTops }

\* words of any text, blank ones included, for the grouping called on its own
AnyShapes ==
    { [text |-> x, width |-> 20, confidence |-> 95, left |-> l, top |-> t] :
        x \in {ShortText, BlankText, <<>>, <<" ", "a">>}, l \in {0, 100}, t \in {0, 26} }

\* settings process_files copies from the sliders (streamlit_app.py lines
\* 107-116): the values the engine is built with, and the least of every slider
ThresholdSettings ==
    { [confidence |-> DefaultConfidenceThreshold, row_height |-> DefaultRowHeightThreshold,
       word_spacing |-> DefaultWordSpacingThreshold,
       column_break |-> DefaultColumnBreakThreshold],
      [confidence |-> 5, row_height |-> 10, word_spacing |-> 10, column_break |-> 50] }

(***************************************************************************)
(* State machine: one run of process_image.                                *)
(***************************************************************************)
NoScore == Fraction(0, 1)

\* no batch of process_files and no cleaning history: the engine is used alone
EngineAlone ==
    /\ cleanings = <<>>
    /\ uploaded_files = <<>>
    /\ debug_mode = FALSE
    /\ file_idx = 0
    /\ excel_files = <<>>
    /\ processed_files = <<>>
    /\ temp_dir = {}
    /\ statuses = <<>>

Init ==
    /\ pc = "start"
    /\ confidence_threshold = DefaultConfidenceThreshold
    /\ row_height_threshold = DefaultRowHeightThreshold
    /\ word_spacing_threshold = DefaultWordSpacingThreshold
    /\ column_break_threshold = DefaultColumnBreakThreshold
    /\ config_idx = 0
    /\ tried = <<>>
    /\ best_words = <<>>
    /\ best_score = NoScore
    /\ words = <<>>
    /\ grouped_rows = <<>>
    /\ row_tops = <<>>
    /\ enhanced_rows = <<>>
    /\ column_positions = <<>>
    /\ sheet = EmptySheet
    /\ column_widths = EmptySheet
    /\ conf_seen = {}
    /\ cell_styles = EmptySheet
    /\ temp_files = {}
    /\ excel_path = "unset"
    /\ message = "unset"
    /\ EngineAlone

thresholds == <<confidence_threshold, row_height_threshold, word_spacing_threshold,
                column_break_threshold>>
extraction == <<config_idx, tried, best_words, best_score>>
layout == <<grouped_rows, row_tops, enhanced_rows, column_positions, sheet,
            column_widths, cell_styles>>
outcome == <<excel_path, message>>
batch == <<uploaded_files, debug_mode, file_idx, excel_files, processed_files,
           temp_dir, statuses>>

\* process_image lines 402, 425-426: Image.open raises
OpenImageFails ==
    /\ pc = "start"
    /\ pc' = "done"
    /\ excel_path' = "None"
    /\ message' = "Error processing image"
    /\ UNCHANGED <<thresholds, extraction, conf_seen, words, layout,
                   temp_files, cleanings, batch>>

\* process_image line 405 and extraction lines 72-83 (the preprocessing
\* handles its own exceptions, lines 65-67, and changes no state kept here)
StartExtraction ==
    /\ pc = "start"
    /\ pc' = "ocr"
    /\ config_idx' = 1
    /\ tried' = <<>>
    /\ best_words' = <<>>
    /\ best_score' = NoScore
    /\ conf_seen' = {}
    /\ UNCHANGED <<thresholds, words, layout, temp_files, outcome, cleanings, batch>>

\* lines 85-116: one configuration whose OCR call returns
ConfigYields ==
    /\ pc = "ocr"
    /\ config_idx <= NumConfigs
    /\ \E ocr_data \in OcrOutputs :
           LET ws == WordsFrom(ocr_data, 1, confidence_threshold)
               score == calculate_extraction_score(ws)
               better == ws # <<>> /\ IsBetterScore(score, best_score)
           IN  /\ best_words' = IF better THEN ws ELSE best_words
               /\ best_score' = IF better THEN score ELSE best_score
               /\ tried' = Append(tried, [raised |-> FALSE, words |-> ws])
               /\ conf_seen' =
                      conf_seen \cup {ConfSide(ocr_data[i], confidence_threshold) :
                                         i \in 1..Len(ocr_data)}
    /\ config_idx' = config_idx + 1
    /\ UNCHANGED <<pc, thresholds, words, layout, temp_files, outcome, cleanings, batch>>

\* the handler of lines 118-120 left out: the exception leaves the
\* extraction and process_image reports it (lines 425-426)
ConfigRaises_Unhandled ==
    /\ pc = "ocr"
    /\ config_idx <= NumConfigs
    /\ pc' = "done"
    /\ excel_path' = "None"
    /\ message' = "Error processing image"
    /\ UNCHANGED <<thresholds, extraction, conf_seen, words, layout,
                   temp_files, cleanings, batch>>

\* lines 86-92, 118-120: one configuration whose OCR call raises
ConfigRaises ==
    /\ pc = "ocr"
    /\ config_idx <= NumConfigs
    /\ tried' = Append(tried, [raised |-> TRUE, words |-> <<>>])
    /\ config_idx' = config_idx + 1
    /\ UNCHANGED <<pc, thresholds, best_words, best_score, conf_seen, words,
                   layout, temp_files, outcome, cleanings, batch>>

\* line 122, back in process_image at line 405; the locals of the extraction
\* are gone
ReturnBestWords ==
    /\ pc = "ocr"
    /\ config_idx > NumConfigs
    /\ pc' = "extracted"
    /\ words' = best_words
    /\ config_idx' = 0
    /\ tried' = <<>>
    /\ best_words' = <<>>
    /\ best_score' = NoScore
    /\ UNCHANGED <<thresholds, conf_seen, layout, temp_files, outcome,
                   cleanings, batch>>

\* lines 407-408
NoTextDetected ==
    /\ pc = "extracted"
    /\ words = <<>>
    /\ pc' = "done"
    /\ excel_path' = "None"
    /\ message' = "No text detected"
    /\ UNCHANGED <<thresholds, extraction, conf_seen, words, layout,
                   temp_files, cleanings, batch>>

\* line 411; the sort of line 147 reorders the caller's list in place
GroupWords ==
    /\ pc = "extracted"
    /\ words # <<>>
    /\ pc' = "grouped"
    /\ words' = SortedWords(words)
    /\ grouped_rows' =
           group_words_by_spacing(words, row_height_threshold, word_spacing_threshold)
    /\ row_tops' = RowTops(words, row_height_threshold, word_spacing_threshold)
    /\ UNCHANGED <<thresholds, extraction, conf_seen, enhanced_rows,
                   column_positions, sheet, column_widths, cell_styles, temp_files,
                   outcome, cleanings, batch>>

\* line 414; line 269 marks the group dicts themselves, which grouped_rows
\* holds too
DetectColumnBreaks ==
    /\ pc = "grouped"
    /\ pc' = "enhanced"
    /\ enhanced_rows' = detect_column_breaks(grouped_rows, column_break_threshold)
    /\ grouped_rows' = enhanced_rows'
    /\ UNCHANGED <<thresholds, extraction, conf_seen, words, row_tops,
                   column_positions, sheet, column_widths, cell_styles, temp_files,
                   outcome, cleanings, batch>>

\* lines 284-285 left out: an empty list of rows is written and saved like
\* any other
CreateLayout_NoEmptyCheck ==
    /\ pc = "enhanced"
    /\ pc' = "done"
    /\ column_positions' = ColumnPositions(enhanced_rows)
    /\ sheet' = WriteRows(EmptySheet, enhanced_rows, 1)
    /\ cell_styles' = CellStyles(sheet')
    /\ column_widths' = adjust_column_widths_smart(sheet')
    /\ temp_files' = temp_files \cup {"temp.xlsx"}
    /\ excel_path' = "temp.xlsx"
    /\ message' = "Extracted"
    /\ UNCHANGED <<thresholds, extraction, conf_seen, words, grouped_rows,
                   row_tops, enhanced_rows, cleanings, batch>>

\* lines 417-421 with create_smart_excel_layout lines 280-311: the workbook is
\* written, sized and saved
CreateLayout ==
    /\ pc = "enhanced"
    /\ pc' = "done"
    /\ IF enhanced_rows = <<>>
       THEN /\ column_positions' = <<>>
            /\ sheet' = EmptySheet
            /\ column_widths' = EmptySheet
            /\ cell_styles' = EmptySheet
            /\ temp_files' = temp_files
            /\ excel_path' = "None"
            /\ message' = "Failed to create Excel output"
       ELSE /\ column_positions' = ColumnPositions(enhanced_rows)
            /\ sheet' = WriteRows(EmptySheet, enhanced_rows, 1)
            /\ cell_styles' = CellStyles(sheet')
            /\ column_widths' = adjust_column_widths_smart(sheet')
            /\ temp_files' = temp_files \cup {"temp.xlsx"}
            /\ excel_path' = "temp.xlsx"
            /\ message' = "Extracted"
    /\ UNCHANGED <<thresholds, extraction, conf_seen, words, grouped_rows,
                   row_tops, enhanced_rows, cleanings, batch>>

\* lines 308-315, 422-423: wb.save raises, the handler returns None; the file
\* NamedTemporaryFile(delete=False) created at line 309 stays
CreateLayoutSaveFails ==
    /\ pc = "enhanced"
    /\ enhanced_rows # <<>>
    /\ pc' = "done"
    /\ column_positions' = ColumnPositions(enhanced_rows)
    /\ sheet' = WriteRows(EmptySheet, enhanced_rows, 1)
    /\ cell_styles' = CellStyles(sheet')
    /\ column_widths' = adjust_column_widths_smart(sheet')
    /\ temp_files' = temp_files \cup {"temp.xlsx"}
    /\ excel_path' = "None"
    /\ message' = "Failed to create Excel output"
    /\ UNCHANGED <<thresholds, extraction, conf_seen, words, grouped_rows,
                   row_tops, enhanced_rows, cleanings, batch>>

Next ==
    \/ OpenImageFails
    \/ StartExtraction
    \/ ConfigYields
    \/ ConfigRaises
    \/ ReturnBestWords
    \/ NoTextDetected
    \/ GroupWords
    \/ DetectColumnBreaks
    \/ CreateLayout
    \/ CreateLayoutSaveFails

Spec == Init /\ [][Next]_vars

(***************************************************************************)
(* The grouping and the layout on every list of words within the bounds:   *)
(* process_image from line 411 on, entered with a list the extraction can  *)
(* return (SpecLayout) or with any list of words (SpecAnyWords).           *)
(***************************************************************************)
InitAfterExtraction(shapeSet) ==
    /\ pc = "extracted"
    /\ \E t \in ThresholdSettings :
           /\ confidence_threshold = t.confidence
           /\ row_height_threshold = t.row_height
           /\ word_spacing_threshold = t.word_spacing
           /\ column_break_threshold = t.column_break
    /\ config_idx = 0
    /\ tried = <<>>
    /\ best_words = <<>>
    /\ best_score = NoScore
    /\ \E shapes \in SeqsUpTo(shapeSet, MaxWords) :
           /\ shapes # <<>>
           /\ words = AsWords(shapes)
    /\ grouped_rows = <<>>
    /\ row_tops = <<>>
    /\ enhanced_rows = <<>>
    /\ column_positions = <<>>
    /\ sheet = EmptySheet
    /\ column_widths = EmptySheet
    /\ conf_seen = {}
    /\ cell_styles = EmptySheet
    /\ temp_files = {}
    /\ excel_path = "unset"
    /\ message = "unset"
    /\ EngineAlone

NextLayout ==
    \/ GroupWords
    \/ DetectColumnBreaks
    \/ CreateLayout
    \/ CreateLayoutSaveFails

InitLayout == InitAfterExtraction(LayoutShapes)

SpecLayout == InitLayout /\ [][NextLayout]_vars

InitAnyWords == InitAfterExtraction(AnyShapes)

SpecAnyWords == InitAnyWords /\ [][NextLayout]_vars

(***************************************************************************)
(* group_words_by_spacing, detect_column_breaks and                        *)
(* create_smart_excel_layout called one after the other on any list of     *)
(* words, the empty one included: process_pdf lines 442-447 and            *)
(* process_image lines 411-417 without the test of the list before them.   *)
(***************************************************************************)
DirectShapes ==
    { [text |-> x, width |-> 20, confidence |-> 95, left |-> l, top |-> 0] :
        x \in {ShortText, BlankText}, l \in {0, 100} }

InitDirect ==
    /\ pc = "extracted"
    /\ confidence_threshold = DefaultConfidenceThreshold
    /\ row_height_threshold = DefaultRowHeightThreshold
    /\ word_spacing_threshold = DefaultWordSpacingThreshold
    /\ column_break_threshold = DefaultColumnBreakThreshold
    /\ config_idx = 0
    /\ tried = <<>>
    /\ best_words = <<>>
    /\ best_score = NoScore
    /\ \E shapes \in SeqsUpTo(DirectShapes, MaxWords) : words = AsWords(shapes)
    /\ grouped_rows = <<>>
    /\ row_tops = <<>>
    /\ enhanced_rows = <<>>
    /\ column_positions = <<>>
    /\ sheet = EmptySheet
    /\ column_widths = EmptySheet
    /\ conf_seen = {}
    /\ cell_styles = EmptySheet
    /\ temp_files = {}
    /\ excel_path = "unset"
    /\ message = "unset"
    /\ EngineAlone

\* lines 141-173: group_words_by_spacing(words), whatever the list
GroupWordsDirect ==
    /\ pc = "extracted"
    /\ pc' = "grouped"
    /\ words' = IF words = <<>> THEN words ELSE SortedWords(words)
    /\ grouped_rows' =
           group_words_by_spacing(words, row_height_threshold, word_spacing_threshold)
    /\ row_tops' = IF words = <<>> THEN <<>>
                   ELSE RowTops(words, row_height_threshold, word_spacing_threshold)
    /\ UNCHANGED <<thresholds, extraction, conf_seen, enhanced_rows,
                   column_positions, sheet, column_widths, cell_styles, temp_files,
                   outcome, cleanings, batch>>

NextDirect ==
    \/ GroupWordsDirect
    \/ DetectColumnBreaks
    \/ CreateLayout
    \/ CreateLayoutSaveFails

SpecDirect == InitDirect /\ [][NextDirect]_vars


(***************************************************************************)
(* The layout of one word of every text within the bounds: process_image   *)
(* from line 411 on, as in SpecLayout, for the formatting of its cell.     *)
(***************************************************************************)
MaxStyleLen == 4        \* characters of a short text

StyleChars == {"A", "a", "-", "1", ".", " "}
StyleConfidences == {40, 60, 95}

\* texts of 50 characters and more, around the limit of line 353
LongTexts ==
    { prefix \o [i \in 1..50 |-> filler] :
        prefix \in {<<>>, <<"a">>, <<"-">>, <<"1", ".">>}, filler \in {"a", "A"} }

\* texts the extraction can return: non-blank, and cleaned
StyleTexts ==
    { t \in SeqsUpTo(StyleChars, MaxStyleLen) \cup LongTexts :
        t # <<>> /\ gentle_text_cleaning(t) = t }

StyleShapes ==
    { [text |-> t, width |-> 20, confidence |-> c, left |-> 0, top |-> 0] :
        t \in StyleTexts, c \in StyleConfidences }

InitStyle ==
    /\ pc = "extracted"
    /\ confidence_threshold = DefaultConfidenceThreshold
    /\ row_height_threshold = DefaultRowHeightThreshold
    /\ word_spacing_threshold = DefaultWordSpacingThreshold
    /\ column_break_threshold = DefaultColumnBreakThreshold
    /\ config_idx = 0
    /\ tried = <<>>
    /\ best_words = <<>>
    /\ best_score = NoScore
    /\ \E shape \in StyleShapes : words = AsWords(<<shape>>)
    /\ grouped_rows = <<>>
    /\ row_tops = <<>>
    /\ enhanced_rows = <<>>
    /\ column_positions = <<>>
    /\ sheet = EmptySheet
    /\ column_widths = EmptySheet
    /\ conf_seen = {}
    /\ cell_styles = EmptySheet
    /\ temp_files = {}
    /\ excel_path = "unset"
    /\ message = "unset"
    /\ EngineAlone

SpecStyle == InitStyle /\ [][NextLayout]_vars

(***************************************************************************)
(* A batch: process_files (src/streamlit_app.py) from line 219 on, over    *)
(* the items of uploaded_files.  What the engine does for one item is      *)
(* Spec above; here a call of process_image or process_pdf is one step     *)
(* that picks one of the results the call can return, with the temporary   *)
(* files it leaves.  A temporary file is [item, page]: the file            *)
(* NamedTemporaryFile creates for that page of that item.  The             *)
(* TemporaryDirectory of process_pdf (engine line 431) is created and      *)
(* removed inside the call on every path and holds only temp.pdf.          *)
(* Diagnostics written to debug_container are not item reports.            *)
(***************************************************************************)
MaxFiles == 2           \* items of a batch
MaxPages == 2           \* pages of a PDF item

FileTypes == {"image", "pdf"}

\* what extraction and layout leave for one page or image: a saved artifact,
\* nothing (no words, or the layout failed before line 309), or a file
\* created at line 309 that wb.save failed to write and nobody removes
PageOutcomes == {"artifact", "nothing", "leaked"}

\* the messages process_image returns with None (lines 408, 423, 426)
NoArtifactMessages ==
    {"No text detected", "Failed to create Excel output", "Error processing image"}

TempFile(i, p) == [item |-> i, page |-> p]

\* the temporary files the pages of item i left, artifacts or not
FilesOf(i, pages, kinds) ==
    {TempFile(i, p) : p \in {q \in 1..Len(pages) : pages[q] \in kinds}}

\* engine lines 441-451: excel_files, the artifacts of the pages in page order
RECURSIVE ArtifactsFrom(_, _, _)
ArtifactsFrom(i, pages, p) ==
    IF p > Len(pages) THEN <<>>
    ELSE (IF pages[p] = "artifact" THEN <<TempFile(i, p)>> ELSE <<>>)
         \o ArtifactsFrom(i, pages, p + 1)

\* the engine is built and not running (lines 201-209 of streamlit_app.py)
EngineIdle ==
    /\ confidence_threshold = DefaultConfidenceThreshold
    /\ row_height_threshold = DefaultRowHeightThreshold
    /\ word_spacing_threshold = DefaultWordSpacingThreshold
    /\ column_break_threshold = DefaultColumnBreakThreshold
    /\ config_idx = 0
    /\ tried = <<>>
    /\ best_words = <<>>
    /\ best_score = NoScore
    /\ words = <<>>
    /\ grouped_rows = <<>>
    /\ row_tops = <<>>
    /\ enhanced_rows = <<>>
    /\ column_positions = <<>>
    /\ sheet = EmptySheet
    /\ column_widths = EmptySheet
    /\ conf_seen = {}
    /\ cell_styles = EmptySheet
    /\ excel_path = "unset"
    /\ message = "unset"

engine == <<thresholds, extraction, conf_seen, words, layout, outcome>>

\* lines 215-221: the loop is entered with the first item
InitBatch ==
    /\ pc = "item"
    /\ EngineIdle
    /\ cleanings = <<>>
    /\ \E files \in SeqsUpTo(FileTypes, MaxFiles) :
           /\ files # <<>>
           /\ uploaded_files = files
    /\ debug_mode \in BOOLEAN
    /\ file_idx = 1
    /\ excel_files = <<>>
    /\ processed_files = <<>>
    /\ temp_dir = {}
    /\ temp_files = {}
    /\ statuses = <<>>

AtItem(type) ==
    /\ pc = "item"
    /\ file_idx <= Len(uploaded_files)
    /\ uploaded_files[file_idx] = type

\* st.success / st.error for the current item, and on to the next item
Report(kind, text) ==
    /\ statuses' = Append(statuses, [item |-> file_idx, kind |-> kind, message |-> text])
    /\ file_idx' = file_idx + 1
    /\ pc' = "item"

\* lines 261-265, 299-300: in debug mode Image.open raises on the upload
DebugOpenFails ==
    /\ AtItem("image")
    /\ debug_mode
    /\ Report("error", "Error processing")
    /\ UNCHANGED <<engine, temp_files, cleanings, uploaded_files, debug_mode,
                   excel_files, processed_files, temp_dir>>

\* lines 279-281: process_image returns a saved file
ImageYieldsArtifact ==
    /\ AtItem("image")
    /\ temp_files' = temp_files \cup {TempFile(file_idx, 1)}
    /\ excel_files' = <<TempFile(file_idx, 1)>>
    /\ pc' = "moving"
    /\ UNCHANGED <<engine, cleanings, uploaded_files, debug_mode, file_idx,
                   processed_files, temp_dir, statuses>>

\* lines 279, 292-293: process_image returns None and a message
ImageYieldsNothing ==
    /\ AtItem("image")
    /\ \E left \in PageOutcomes \ {"artifact"} :
           /\ temp_files' = temp_files \cup FilesOf(file_idx, <<left>>, {"leaked"})
           /\ \E text \in NoArtifactMessages :
                  /\ left = "leaked" => text = "Failed to create Excel output"
                  /\ Report("error", text)
    /\ UNCHANGED <<engine, cleanings, uploaded_files, debug_mode, excel_files,
                   processed_files, temp_dir>>

\* line 238 with engine lines 436-454, line 240: process_pdf returns the
\* artifacts of some pages
PdfYieldsArtifacts ==
    /\ AtItem("pdf")
    /\ \E pages \in SeqsUpTo(PageOutcomes, MaxPages) :
           /\ ArtifactsFrom(file_idx, pages, 1) # <<>>
           /\ temp_files' = temp_files \cup FilesOf(file_idx, pages, {"artifact", "leaked"})
           /\ excel_files' = ArtifactsFrom(file_idx, pages, 1)
    /\ pc' = "moving"
    /\ UNCHANGED <<engine, cleanings, uploaded_files, debug_mode, file_idx,
                   processed_files, temp_dir, statuses>>

\* line 238 with engine lines 456, 252-253: no page gave an artifact
PdfYieldsNothing ==
    /\ AtItem("pdf")
    /\ \E pages \in SeqsUpTo(PageOutcomes \ {"artifact"}, MaxPages) :
           temp_files' = temp_files \cup FilesOf(file_idx, pages, {"leaked"})
    /\ Report("error", "No text found")
    /\ UNCHANGED <<engine, cleanings, uploaded_files, debug_mode, excel_files,
                   processed_files, temp_dir>>

\* line 238 with engine lines 433-436, 458-459: reading or rasterizing the
\* PDF raises before any page is processed
PdfRasterizeFails ==
    /\ AtItem("pdf")
    /\ Report("error", "Error processing PDF")
    /\ UNCHANGED <<engine, temp_files, cleanings, uploaded_files, debug_mode,
                   excel_files, processed_files, temp_dir>>

\* lines 241-247 and 283-289: os.rename moves the next artifact into temp_dir;
\* after the last one the item is reported with st.success
MoveArtifact ==
    /\ pc = "moving"
    /\ excel_files # <<>>
    /\ LET excel_path_ == Head(excel_files)
       IN  /\ temp_files' = temp_files \ {excel_path_}
           /\ temp_dir' = temp_dir \cup {excel_path_}
           /\ processed_files' = Append(processed_files, excel_path_)
    /\ excel_files' = Tail(excel_files)
    /\ IF Tail(excel_files) = <<>>
       THEN Report("success", "Processed")
       ELSE UNCHANGED <<pc, file_idx, statuses>>
    /\ UNCHANGED <<engine, cleanings, uploaded_files, debug_mode>>

\* the handler of lines 299-303 left out: the exception of os.rename leaves
\* process_files through the with statement of line 219
MoveArtifactFails_Unhandled ==
    /\ pc = "moving"
    /\ excel_files # <<>>
    /\ excel_files' = <<>>
    /\ temp_dir' = {}
    /\ pc' = "finished"
    /\ UNCHANGED <<engine, temp_files, cleanings, uploaded_files, debug_mode, file_idx,
                   processed_files, statuses>>

\* lines 245 / 286, 299-300: os.rename raises; the item is reported with
\* st.error and the artifacts not moved yet stay where they are
MoveArtifactFails ==
    /\ pc = "moving"
    /\ excel_files # <<>>
    /\ excel_files' = <<>>
    /\ Report("error", "Error processing")
    /\ UNCHANGED <<engine, temp_files, cleanings, uploaded_files, debug_mode,
                   processed_files, temp_dir>>

\* lines 306-360: the loop is over, the downloads are offered and the with
\* statement of line 219 removes temp_dir and what is in it
FinishBatch ==
    /\ pc = "item"
    /\ file_idx > Len(uploaded_files)
    /\ temp_dir' = {}
    /\ pc' = "finished"
    /\ UNCHANGED <<engine, temp_files, cleanings, uploaded_files, debug_mode, file_idx,
                   excel_files, processed_files, statuses>>

NextBatch ==
    \/ DebugOpenFails
    \/ ImageYieldsArtifact
    \/ ImageYieldsNothing
    \/ PdfYieldsArtifacts
    \/ PdfYieldsNothing
    \/ PdfRasterizeFails
    \/ MoveArtifact
    \/ MoveArtifactFails
    \/ FinishBatch

SpecBatch == InitBatch /\ [][NextBatch]_vars

(***************************************************************************)
(* gentle_text_cleaning applied to every text within the bounds, and again *)
(* to what it returned.                                                    *)
(***************************************************************************)
MaxTextLen == 5         \* characters of a text to clean
MaxCleanings == 2       \* times the cleaning is applied

CleanChars == {"a", " ", "\t", "|"}

InitClean ==
    /\ pc = "cleaning"
    /\ EngineIdle
    /\ temp_files = {}
    /\ \E text \in SeqsUpTo(CleanChars, MaxTextLen) : cleanings = <<text>>
    /\ uploaded_files = <<>>
    /\ debug_mode = FALSE
    /\ file_idx = 0
    /\ excel_files = <<>>
    /\ processed_files = <<>>
    /\ temp_dir = {}
    /\ statuses = <<>>

\* lines 384-396: the last text is cleaned
CleanText ==
    /\ pc = "cleaning"
    /\ Len(cleanings) <= MaxCleanings
    /\ cleanings' = Append(cleanings, gentle_text_cleaning(cleanings[Len(cleanings)]))
    /\ UNCHANGED <<pc, engine, temp_files, batch>>

SpecClean == InitClean /\ [][CleanText]_vars


(***************************************************************************)
(* Claims about the extraction (checked under Spec).                       *)
(***************************************************************************)
\* the extraction has tried every configuration and is about to return
\* best_words (line 122)
AtReturn == pc = "ocr" /\ config_idx > NumConfigs

\* ten times n times the score the claim gives:
\* 0.4*count + 0.3*mean confidence + 0.3*total text length
ClaimScoreNum(ws) ==
    LET n == Len(ws)
    IN  4 * n * n
        + 3 * SumSeq([i \in 1..n |-> ws[i].confidence])
        + 3 * n * SumSeq([i \in 1..n |-> Len(ws[i].text)])

\* score(a) < score(b), for non-empty a and b
ClaimScoreLess(a, b) == ClaimScoreNum(a) * Len(b) < ClaimScoreNum(b) * Len(a)

\* the configurations tried so far that produced a token set to score
Scored == {i \in 1..Len(tried) : ~tried[i].raised /\ tried[i].words # <<>>}

\* configuration i has the highest score, and is the first that has it
FirstHighest(i) ==
    /\ i \in Scored
    /\ \A j \in Scored : ~ClaimScoreLess(tried[i].words, tried[j].words)
    /\ \A j \in Scored : j < i => ClaimScoreLess(tried[j].words, tried[i].words)

\* C1: the configurations are tried in their declared order, and the token
\* set kept (and returned once all are tried) is that of the configuration
\* with the highest score, the first tried among those of equal highest score.
C1_FirstHighestScoreWins ==
    pc = "ocr" =>
        /\ Len(tried) = config_idx - 1
        /\ config_idx <= NumConfigs + 1
        /\ (Scored = {} => best_words = <<>>)
        /\ \A i \in Scored : FirstHighest(i) => best_words = tried[i].words

\* C1 witness: two configurations tie at the highest score with different
\* token sets and the first one's is returned
C1_Witness ==
    /\ AtReturn
    /\ \E i, j \in Scored :
           /\ i < j
           /\ FirstHighest(i)
           /\ ~ClaimScoreLess(tried[j].words, tried[i].words)
           /\ tried[j].words # tried[i].words
           /\ best_words = tried[i].words

\* C2: the extraction never fails: whichever configurations raise, the only
\* way out of the loop over the configurations is the return of line 122,
\* after all of them were tried, with a token sequence one of them produced
\* (or the empty one); it is empty when no configuration has a surviving token.
C2_ExtractionNeverFails ==
    /\ [](AtReturn =>
            /\ Len(tried) = NumConfigs
            /\ best_words \in {<<>>} \cup {tried[i].words : i \in 1..Len(tried)}
            /\ ((\A i \in 1..Len(tried) : tried[i].words = <<>>) => best_words = <<>>)
            /\ ((\E i \in 1..Len(tried) : tried[i].words # <<>>) => best_words # <<>>))
    /\ [][pc = "ocr" =>
            \/ pc' = "ocr"
            \/ (AtReturn /\ pc' = "extracted" /\ words' = best_words)]_vars

\* C2 witness: the first and the last configuration raised, another one
\* produced tokens, and they are returned
C2_Witness ==
    /\ AtReturn
    /\ tried[1].raised
    /\ tried[NumConfigs].raised
    /\ best_words # <<>>

(***************************************************************************)
(* Claims about the grouping and the layout (checked under SpecLayout, C9  *)
(* under SpecAnyWords).                                                    *)
(***************************************************************************)
\* the tokens of a row, left to right: the word groups of its TextRuns
RowWords(row) == Flatten([i \in 1..Len(row) |-> row[i].words])

\* how many tokens the TextRuns before run j of the row hold
WordsBefore(row, j) == SumSeq([i \in 1..(j - 1) |-> Len(row[i].words)])

\* the TextRun of the row that holds its k-th token
RunOf(row, k) ==
    CHOOSE j \in 1..Len(row) :
        WordsBefore(row, j) < k /\ k <= WordsBefore(row, j) + Len(row[j].words)

\* every token handed to the grouping is in some TextRun of some row
AllWordsGrouped ==
    SumSeq([r \in 1..Len(grouped_rows) |-> Len(RowWords(grouped_rows[r]))]) = Len(words)

\* C3: within a row the tokens are walked left to right, and two consecutive
\* tokens are in the same TextRun exactly when the gap
\* current.left - (previous.left + previous.width) is <= wordSpacingThreshold;
\* no token is left out (the last open group is flushed).
C3_SpacingDecidesRuns ==
    pc = "grouped" =>
        /\ AllWordsGrouped
        /\ \A r \in 1..Len(grouped_rows) :
               LET row == grouped_rows[r]
                   toks == RowWords(row)
               IN  \A k \in 1..(Len(toks) - 1) :
                       /\ toks[k].left <= toks[k + 1].left
                       /\ (RunOf(row, k) = RunOf(row, k + 1))
                              <=> (toks[k + 1].left - (toks[k].left + toks[k].width)
                                       <= word_spacing_threshold)

\* C3 witness: a row of three tokens, the first two one TextRun at a gap equal
\* to the threshold, the third a TextRun of its own
C3_Witness ==
    /\ pc = "grouped"
    /\ \E r \in 1..Len(grouped_rows) :
           LET row == grouped_rows[r]
           IN  /\ Len(row) = 2
               /\ Len(row[1].words) = 2
               /\ row[1].words[2].left - row[1].words[1].right = word_spacing_threshold
               /\ Len(row[2].words) = 1

\* C4: every row's reference top is the top of the first element placed in
\* it (the smallest of the row, the walk being in ascending top order) and is
\* never updated: every element of the row is within rowHeightThreshold of
\* it, and the element that opens the next row is not.
C4_FixedReferenceTop ==
    pc = "grouped" =>
        /\ AllWordsGrouped
        /\ Len(row_tops) = Len(grouped_rows)
        /\ \A r \in 1..Len(grouped_rows) :
               LET toks == RowWords(grouped_rows[r])
               IN  /\ \E k \in 1..Len(toks) : toks[k].top = row_tops[r]
                   /\ \A k \in 1..Len(toks) :
                          /\ row_tops[r] <= toks[k].top
                          /\ Abs(toks[k].top - row_tops[r]) <= row_height_threshold
                   /\ r > 1 =>
                          /\ Abs(row_tops[r] - row_tops[r - 1]) > row_height_threshold
                          /\ \A k \in 1..Len(RowWords(grouped_rows[r - 1])) :
                                 RowWords(grouped_rows[r - 1])[k].top <= row_tops[r]

\* C4 witness: three tokens, each within the threshold of the one before it,
\* the third too far from the first: two rows
C4_Witness ==
    /\ pc = "grouped"
    /\ Len(words) = 3
    /\ words[2].top - words[1].top \in 1..row_height_threshold
    /\ words[3].top - words[2].top \in 1..row_height_threshold
    /\ Len(grouped_rows) = 2
    /\ Len(RowWords(grouped_rows[1])) = 2

\* the gap before TextRun i of a row
RunGap(row, i) == row[i].left - (row[i - 1].left + row[i - 1].width)

\* the rows were written (whether or not saving the workbook succeeded)
Written == pc = "done" /\ enhanced_rows # <<>>

\* C5: in every row the first TextRun gets column 1 and every later one the
\* previous column, plus one exactly when its gap to the previous TextRun is
\* >= columnBreakThreshold; two TextRuns of a row whose gap is larger than the
\* threshold get columns 1 and 2.
C5_ColumnAssignment ==
    Written =>
        /\ Len(column_positions) = Len(enhanced_rows)
        /\ \A r \in 1..Len(enhanced_rows) :
               LET row == enhanced_rows[r]
                   cols == column_positions[r]
               IN  /\ Len(cols) = Len(row)
                   /\ Len(row) >= 1
                   /\ cols[1] = 1
                   /\ \A i \in 2..Len(row) :
                          cols[i] = IF RunGap(row, i) >= column_break_threshold
                                    THEN cols[i - 1] + 1
                                    ELSE cols[i - 1]
                   /\ (Len(row) = 2 /\ RunGap(row, 2) > column_break_threshold)
                          => cols = <<1, 2>>

\* C5 witness: a row of three TextRuns, the gap before the second below the
\* threshold (the same column) and the gap before the third above it (a new
\* column)
C5_Witness ==
    /\ Written
    /\ \E r \in 1..Len(enhanced_rows) :
           LET row == enhanced_rows[r]
           IN  /\ Len(row) = 3
               /\ RunGap(row, 2) < column_break_threshold
               /\ RunGap(row, 3) > column_break_threshold
               /\ column_positions[r] = <<1, 1, 2>>

\* C6: in every row the TextRuns are in ascending order of left, and their
\* column indices start at 1 and never decrease from left to right.
C6_RowsOrderedColumnsMonotone ==
    Written =>
        \A r \in 1..Len(enhanced_rows) :
            LET row == enhanced_rows[r]
                cols == column_positions[r]
            IN  /\ cols[1] = 1
                /\ \A i \in 2..Len(row) :
                       /\ row[i - 1].left <= row[i].left
                       /\ grouped_rows[r][i - 1].left <= grouped_rows[r][i].left
                       /\ cols[i - 1] <= cols[i]

\* C6 witness: a row whose TextRuns arrive in another order than left to
\* right (the one further right is higher up), written to columns 1 and 2
C6_Witness ==
    /\ Written
    /\ \E r \in 1..Len(enhanced_rows) :
           LET row == enhanced_rows[r]
           IN  /\ Len(row) = 2
               /\ row[2].top < row[1].top
               /\ row[1].left < row[2].left
               /\ column_positions[r] = <<1, 2>>

\* C7: once the grid is written and saved, the cell at (row r, the column
\* assigned to the TextRun) holds exactly the text of every TextRun of every
\* row r, and no other cell holds anything.
C7_EveryRunInItsCell ==
    (pc = "done" /\ excel_path = "temp.xlsx") =>
        /\ \A r \in 1..Len(enhanced_rows) :
               \A i \in 1..Len(enhanced_rows[r]) :
                   /\ <<r, column_positions[r][i]>> \in DOMAIN sheet
                   /\ sheet[<<r, column_positions[r][i]>>] = enhanced_rows[r][i].text
        /\ \A c \in DOMAIN sheet :
               \E r \in 1..Len(enhanced_rows) :
                   \E i \in 1..Len(enhanced_rows[r]) : c = <<r, column_positions[r][i]>>

\* C8: the rows come out in the order of their reference tops: no row's
\* reference top (the smallest top of its tokens) is below that of the row
\* before it.
C8_RowsOrderedByReferenceTop ==
    pc = "grouped" =>
        /\ Len(row_tops) = Len(grouped_rows)
        /\ \A r \in 1..Len(grouped_rows) :
               row_tops[r] = MinSeq([k \in 1..Len(RowWords(grouped_rows[r])) |->
                                        RowWords(grouped_rows[r])[k].top])
        /\ \A r \in 2..Len(grouped_rows) : row_tops[r - 1] <= row_tops[r]

\* C8 witness: two rows, the first of two tokens of different tops
C8_Witness ==
    /\ pc = "grouped"
    /\ Len(grouped_rows) = 2
    /\ row_tops[1] < row_tops[2]
    /\ \E k \in 1..Len(RowWords(grouped_rows[1])) :
           RowWords(grouped_rows[1])[k].top > row_tops[1]

\* C9: no TextRun has an empty or blank text (a group whose merged text is
\* blank is dropped, and no row is left empty), and the TextRun of a group of
\* exactly one token has that token's text, unchanged.
C9_NoBlankRuns ==
    pc = "grouped" =>
        \A r \in 1..Len(grouped_rows) :
            /\ grouped_rows[r] # <<>>
            /\ \A i \in 1..Len(grouped_rows[r]) :
                   LET run == grouped_rows[r][i]
                   IN  /\ run.text # <<>>
                       /\ Strip(run.text) # <<>>
                       /\ Len(run.words) = 1 => run.text = run.words[1].text

\* C9 witness: a blank group was dropped, and a TextRun of one token kept the
\* token's text with the blank in front of it
C9_Witness ==
    /\ pc = "grouped"
    /\ ~AllWordsGrouped
    /\ \E r \in 1..Len(grouped_rows) :
           \E i \in 1..Len(grouped_rows[r]) :
               /\ Len(grouped_rows[r][i].words) = 1
               /\ grouped_rows[r][i].text = <<" ", "a">>

\* the cells of a column that hold a value
ColumnCells(col) == {c \in DOMAIN sheet : c[2] = col /\ sheet[c] # <<>>}

\* clamp(n, 15, 80)
Clamp15to80(n) == IF n < 15 THEN 15 ELSE IF n > 80 THEN 80 ELSE n

\* C10: every column holding a value gets the width
\* clamp(longest text of the column + 3, 15, 80), which is within [15, 80];
\* no other column gets a width.
C10_ColumnWidthsClamped ==
    Written =>
        /\ DOMAIN column_widths = {c[2] : c \in {d \in DOMAIN sheet : sheet[d] # <<>>}}
        /\ \A col \in DOMAIN column_widths :
               /\ column_widths[col] >= 15
               /\ column_widths[col] <= 80
               /\ \E c \in ColumnCells(col) :
                      /\ \A d \in ColumnCells(col) : Len(sheet[d]) <= Len(sheet[c])
                      /\ column_widths[col] = Clamp15to80(Len(sheet[c]) + 3)

\* C10 witness: one column raised to 15 (its longest text shorter than 12)
\* and one cut to 80 (its longest text longer than 77)
C10_Witness ==
    /\ Written
    /\ \E a, b \in DOMAIN column_widths :
           /\ column_widths[a] = 15
           /\ \A c \in ColumnCells(a) : Len(sheet[c]) < 12
           /\ column_widths[b] = 80
           /\ \E c \in ColumnCells(b) : Len(sheet[c]) > 77

(***************************************************************************)
(* Claims about empty and rejected input (C11 under SpecDirect, C12 under  *)
(* Spec).                                                                  *)
(***************************************************************************)
\* C11: an empty list of words gives an empty list of rows from
\* group_words_by_spacing, an empty list of rows gives an empty list from
\* detect_column_breaks, and create_smart_excel_layout on an empty list of
\* rows returns None, writes no cell and creates no temporary file.
C11_EmptyInNoArtifactOut ==
    /\ [][(pc = "extracted" /\ words = <<>> /\ pc' = "grouped")
             => grouped_rows' = <<>>]_vars
    /\ [][(pc = "grouped" /\ grouped_rows = <<>> /\ pc' = "enhanced")
             => enhanced_rows' = <<>>]_vars
    /\ [][(pc = "enhanced" /\ enhanced_rows = <<>> /\ pc' = "done")
             => /\ excel_path' = "None"
                /\ temp_files' = temp_files
                /\ sheet' = EmptySheet]_vars

\* C11 witness: the three calls were made from an empty list of words and
\* ended without a file
C11_Witness ==
    /\ pc = "done"
    /\ words = <<>>
    /\ grouped_rows = <<>>
    /\ enhanced_rows = <<>>
    /\ excel_path = "None"
    /\ temp_files = {}

\* C12: when the extraction read OCR entries and the conf of every one of
\* them, in every configuration, was below confidence_threshold, it returns the
\* empty list, and process_image ends with no file and the message
\* "No text detected": nothing was grouped, written or saved, and neither an
\* error nor a success is reported.
C12_AllBelowThresholdNoText ==
    conf_seen = {"below"} =>
        /\ pc \in {"ocr", "extracted", "done"}
        /\ best_words = <<>>
        /\ words = <<>>
        /\ layout = <<<<>>, <<>>, <<>>, <<>>, EmptySheet, EmptySheet, EmptySheet>>
        /\ temp_files = {}
        /\ pc = "done" => excel_path = "None" /\ message = "No text detected"

\* C12 witness: process_image is over, entries were read and all of them were
\* below the threshold
C12_Witness ==
    /\ pc = "done"
    /\ conf_seen = {"below"}
    /\ message = "No text detected"

(***************************************************************************)
(* Claims about a batch (checked under SpecBatch).                         *)
(***************************************************************************)
\* the items whose processing is over
ItemsDone == IF pc = "finished" THEN Len(statuses) ELSE file_idx - 1

\* C13: every item of a batch gets exactly one report, a success with an
\* artifact in the results or a failure with a reason, in the order of the
\* items, whatever happened to the items before it: when process_files is
\* over every item has its report, also after items that failed in the engine,
\* in debug mode or while their artifact was moved.
C13_OneStatusPerItem ==
    /\ pc \in {"item", "moving", "finished"} =>
           /\ Len(statuses) = ItemsDone
           /\ \A k \in 1..Len(statuses) :
                  /\ statuses[k].item = k
                  /\ statuses[k].kind \in {"success", "error"}
                  /\ statuses[k].kind = "success" =>
                         \E n \in 1..Len(processed_files) : processed_files[n].item = k
                  /\ statuses[k].kind = "error" => statuses[k].message # ""
    /\ pc = "finished" => Len(statuses) = Len(uploaded_files)

\* C13 witness: a batch of two items is over, the first failed while its
\* artifact was moved and the second succeeded
C13_Witness ==
    /\ pc = "finished"
    /\ Len(uploaded_files) = 2
    /\ statuses[1].kind = "error"
    /\ statuses[1].message = "Error processing"
    /\ statuses[2].kind = "success"

\* C15: when process_files is over, no temporary file created by
\* create_smart_excel_layout is left in the system temporary directory and the
\* directory of the results is gone, on every path: also after wb.save raised
\* on a file already created, and after os.rename failed on one artifact of an
\* item while others were still to move.
C15_NoTemporaryLeft ==
    pc = "finished" =>
        /\ temp_files = {}
        /\ temp_dir = {}

(***************************************************************************)
(* Claims about the formatting of the cells (checked under SpecStyle).     *)
(***************************************************************************)
\* the rules of the formatting, on the text alone
HeaderText(text) == isupper(text) /\ Len(text) > 3
BulletText(text) == ~HeaderText(text) /\ StartsWithBullet(text)
NumberedText(text) ==
    ~HeaderText(text) /\ ~StartsWithBullet(text) /\ MatchesNumbered(text)
LongBodyText(text) ==
    /\ ~HeaderText(text)
    /\ ~StartsWithBullet(text)
    /\ ~MatchesNumbered(text)
    /\ Len(text) > 50

\* C14 as amended: the style of a cell is decided by the text of its TextRun
\* alone, by the first matching rule in the order Header, Bullet, Numbered,
\* LongBody, Body; Header matches when the text is fully upper-case and longer
\* than 3 characters, whatever the confidence of the run, and there is no
\* LowConfidence style.
C14_FirstMatchingTextRule ==
    Written =>
        /\ DOMAIN cell_styles = DOMAIN sheet
        /\ \A c \in DOMAIN sheet :
               LET text == sheet[c]
                   style == cell_styles[c]
               IN  /\ style \in {"Header", "Bullet", "Numbered", "LongBody", "Body"}
                   /\ style = "Header" <=> HeaderText(text)
                   /\ style = "Bullet" <=> BulletText(text)
                   /\ style = "Numbered" <=> NumberedText(text)
                   /\ style = "LongBody" <=> LongBodyText(text)

\* C14 witness: an upper-case run of confidence 40 was written as a Header
C14_Witness ==
    /\ Written
    /\ Len(enhanced_rows) = 1
    /\ Len(enhanced_rows[1]) = 1
    /\ enhanced_rows[1][1].confidence = Fraction(40, 1)
    /\ cell_styles[<<1, 1>>] = "Header"

\* the style the claim gives a run of this text and confidence (a fraction)
ClaimedStyle(text, confidence) ==
    IF isupper(text) /\ Len(text) > 3 /\ confidence.num > 70 * confidence.den
    THEN "Header"
    ELSE IF StartsWithBullet(text) THEN "Bullet"
    ELSE IF MatchesNumbered(text) THEN "Numbered"
    ELSE IF Len(text) > 50 THEN "LongBody"
    ELSE IF confidence.num < 50 * confidence.den THEN "LowConfidence"
    ELSE "Body"

\* C14 as stated: the style of the cell of every TextRun is the first matching
\* of Header (fully upper-case, longer than 3, confidence > 70), Bullet,
\* Numbered, LongBody, LowConfidence (confidence < 50), Body.
C14_StyleByConfidence ==
    Written =>
        \A r \in 1..Len(enhanced_rows) : \A i \in 1..Len(enhanced_rows[r]) :
            LET run == enhanced_rows[r][i]
                c == <<r, column_positions[r][i]>>
            IN  sheet[c] = run.text =>
                    cell_styles[c] = ClaimedStyle(run.text, run.confidence)

(***************************************************************************)
(* Claims about the cleaning of texts (C16 under SpecClean, C17 under      *)
(* Spec).                                                                  *)
(***************************************************************************)
\* C16: cleaning is idempotent: cleaning a text that gentle_text_cleaning
\* returned gives that text again.
C16_CleaningIdempotent ==
    \A k \in 3..Len(cleanings) : cleanings[k] = cleanings[k - 1]

\* C16 witness: a text with outer whitespace, an inner run of whitespace and
\* a bar was changed by the first cleaning and not by the second
C16_Witness ==
    /\ Len(cleanings) = 3
    /\ cleanings[1] = <<" ", "|", "\t", " ", "a">>
    /\ cleanings[2] = <<"I", " ", "a">>
    /\ cleanings[3] = cleanings[2]

\* the texts of the words of a list, trimmed
TrimmedLengths(ws) == {Len(Strip(ws[i].text)) : i \in 1..Len(ws)}

\* C17 as amended: an OCR entry whose trimmed text is empty is discarded, and
\* every word the extraction returns has a cleaned text of at least 1
\* character; texts of one character are kept.
C17_ReturnedTextsNotBlank ==
    /\ AtReturn => \A n \in TrimmedLengths(best_words) : n >= 1
    /\ pc = "extracted" => \A n \in TrimmedLengths(words) : n >= 1

\* C17 witness: the extraction returned a word whose cleaned text is the one
\* character "I"
C17_Witness ==
    /\ pc = "extracted"
    /\ \E i \in 1..Len(words) : words[i].text = <<"I">>

\* C17 as stated: every word the extraction returns has a cleaned text of at
\* least 2 characters.
C17_ReturnedTextsTwoChars ==
    pc = "extracted" => \A n \in TrimmedLengths(words) : n >= 2

(***************************************************************************)
(* Claim about the tokens across the grouping (checked under SpecLayout).  *)
(***************************************************************************)
\* the tokens of all TextRuns of all rows
GroupedTokens == Flatten([r \in 1..Len(grouped_rows) |-> RowWords(grouped_rows[r])])

\* how many TextRuns the rows hold
RunCount == SumSeq([r \in 1..Len(grouped_rows) |-> Len(grouped_rows[r])])

\* how often x occurs in the sequence s
Occurrences(s, x) == Cardinality({i \in 1..Len(s) : s[i] = x})

\* C18: the grouping conserves the tokens: once group_words_by_spacing has
\* run on a list of non-blank words, every word is in the word groups of the
\* TextRuns as often as it is in the list, and nothing else is; there are at
\* most as many TextRuns as words and at most as many rows as TextRuns, no row
\* is empty, and a non-empty list gives at least one row.
C18_GroupingConservesTokens ==
    pc \in {"grouped", "enhanced", "done"} =>
        /\ Len(GroupedTokens) = Len(words)
        /\ \A i \in 1..Len(words) :
               Occurrences(GroupedTokens, words[i]) = Occurrences(words, words[i])
        /\ RunCount <= Len(words)
        /\ Len(grouped_rows) <= RunCount
        /\ \A r \in 1..Len(grouped_rows) :
               /\ grouped_rows[r] # <<>>
               /\ \A i \in 1..Len(grouped_rows[r]) : grouped_rows[r][i].words # <<>>
        /\ words # <<>> => grouped_rows # <<>>

\* C18 witness: three words were grouped into two rows and two TextRuns, one
\* of them holding two of the words
C18_Witness ==
    /\ pc = "grouped"
    /\ Len(words) = 3
    /\ Len(grouped_rows) = 2
    /\ RunCount = 2
    /\ \E r \in 1..2 : Len(grouped_rows[r][1].words) = 2

====
